---- MODULE Spec2Model ----
(***************************************************************************)
(* Model of address.py: the Address value object, its dict-like component  *)
(* access, validate()/valid/empty and render().                            *)
(*                                                                         *)
(* A Python string is a sequence of one-character strings.  None is the    *)
(* one-element sequence <<"None">>, whose element is no character, so that *)
(* every component value is a sequence and None differs from every string. *)
(***************************************************************************)
EXTENDS FiniteSets, Integers, Sequences, TLC

\* addr: the components of the instance (no component: no instance).
\* The other variables record the last call: op its name, arg its argument,
\* res what it returned or raised, before the components as they were when
\* the call entered validate(), and was_valid whether the call before it was
\* a validate() run that succeeded.
VARIABLES addr, before, op, arg, res, was_valid

vars == <<addr, before, op, arg, res, was_valid>>

\* Length of the whitespace runs in the input strings.
MaxPad == 2

None == <<"None">>

\* Python truth value of a component: None and "" are false, any other
\* string (a whitespace-only one included) is true.
Truthy(v) == v # None /\ v # <<>>

\* ---------------------------------------------------------------- strings

IsSpace(c) == c = " "

RECURSIVE LStrip(_)
LStrip(s) == IF s # <<>> /\ IsSpace(Head(s)) THEN LStrip(Tail(s)) ELSE s

RECURSIVE RStrip(_)
RStrip(s) ==
    IF s # <<>> /\ IsSpace(s[Len(s)]) THEN RStrip(SubSeq(s, 1, Len(s) - 1)) ELSE s

\* str.strip()
Strip(s) == RStrip(LStrip(s))

UpperChar(c) ==
    CASE c = "a" -> "A"
      [] c = "c" -> "C"
      [] c = "n" -> "N"
      [] c = "o" -> "O"
      [] OTHER -> c

\* str.upper()
Upper(s) == [i \in 1..Len(s) |-> UpperChar(s[i])]

RECURSIVE Join(_, _)
\* sep.join(parts)
Join(sep, parts) ==
    IF parts = <<>> THEN <<>>
    ELSE IF Len(parts) = 1 THEN parts[1]
    ELSE parts[1] \o sep \o Join(sep, Tail(parts))

Spaces(n) == [i \in 1..n |-> " "]

\* ------------------------------------------------- the territory directory

\* pycountry.countries: alpha2 code and name.
countries ==
    { [alpha2 |-> <<"C", "A">>, name |-> <<"C", "a", "n", "a", "d", "a">>],
      [alpha2 |-> <<"F", "R">>, name |-> <<"F", "r", "a", "n", "c", "e">>],
      [alpha2 |-> <<"U", "S">>, name |-> <<"U", "S", "A">>] }

\* pycountry.subdivisions: code and parent country.
subdivisions ==
    { [code |-> <<"C", "A", "-", "O", "N">>, country_code |-> <<"C", "A">>],
      [code |-> <<"U", "S", "-", "C", "A">>, country_code |-> <<"U", "S">>] }

\* countries.get(alpha2=...) and subdivisions.get(code=...) raise KeyError
\* when the code is not in the table.
CountryKnown(code) == \E c \in countries : c.alpha2 = code

SubdivisionKnown(code) == \E s \in subdivisions : s.code = code

CountryGet(code) == CHOOSE c \in countries : c.alpha2 = code

SubdivisionGet(code) == CHOOSE s \in subdivisions : s.code = code

\* ------------------------------------------------------------- the record

Components ==
    {"line1", "line2", "zip_code", "city", "country_code", "subdivision_code"}

\* Variant: city is not required.
REQUIRED_FIELDS_NoCity == <<"line1", "zip_code", "country_code">>

REQUIRED_FIELDS == <<"line1", "zip_code", "city", "country_code">>

\* No instance: a failed constructor returns no object.
NoAddress == <<>>

NoSnapshot == <<>>

NoArg == <<>>

Live == DOMAIN addr # {}

\* Results of an operation: the exception raised ("" when none), the message
\* kind of a ValueError, the field a "requires" message names, and the
\* returned value.
Returned(v) == [exc |-> "", why |-> "", field |-> "", ret |-> v]

Raised(e, w, f) == [exc |-> e, why |-> w, field |-> f, ret |-> None]

\* ----------------------------------------------------------- validate()

\* Normalize ISO codes.
NormalizeCodes(self) ==
    LET s1 == IF Truthy(self.country_code)
              THEN [self EXCEPT !.country_code = Upper(Strip(@))]
              ELSE self
    IN  IF Truthy(s1.subdivision_code)
        THEN [s1 EXCEPT !.subdivision_code = Upper(Strip(@))]
        ELSE s1

\* Normalize empty/blank strings to None.
NormalizeBlank(self) ==
    [c \in DOMAIN self |-> IF ~Truthy(self[c]) THEN None ELSE self[c]]

\* Variant: the lines are swapped whenever line2 is set.
SwapLinesAlways(self) ==
    IF Truthy(self.line2)
    THEN [self EXCEPT !.line1 = self.line2, !.line2 = self.line1]
    ELSE self

\* Swap lines if the first is empty.
SwapLines(self) ==
    IF Truthy(self.line2) /\ ~Truthy(self.line1)
    THEN [self EXCEPT !.line1 = self.line2, !.line2 = self.line1]
    ELSE self

\* Derive country code from subdivision if the former is not set.
DeriveCountry(self) ==
    IF Truthy(self.subdivision_code) /\ ~Truthy(self.country_code)
    THEN [self EXCEPT
            !.country_code = SubdivisionGet(self.subdivision_code).country_code]
    ELSE self

\* Variant: the consistency check is left out.
CountryMismatchNever(self) == FALSE

\* Check country consistency against subdivision.
CountryMismatch(self) ==
    /\ Truthy(self.country_code)
    /\ Truthy(self.subdivision_code)
    /\ SubdivisionGet(self.subdivision_code).country_code # self.country_code

RECURSIVE FirstMissing(_, _)
\* The first required field that is not set, "" when all are.
FirstMissing(self, fields) ==
    IF fields = <<>> THEN ""
    ELSE IF ~Truthy(self[Head(fields)]) THEN Head(fields)
    ELSE FirstMissing(self, Tail(fields))

\* Variant: the required fields are checked before the codes.
ValidateRequiredFirst(self) ==
    LET s3 == SwapLines(NormalizeBlank(NormalizeCodes(self)))
        s4 == DeriveCountry(s3)
    IN  IF FirstMissing(s3, REQUIRED_FIELDS) # ""
        THEN [self |-> s3,
              out |-> Raised("ValueError", "requires",
                             FirstMissing(s3, REQUIRED_FIELDS))]
        ELSE IF Truthy(s3.subdivision_code) /\ ~SubdivisionKnown(s3.subdivision_code)
        THEN [self |-> s3, out |-> Raised("ValueError", "subdivision", "")]
        ELSE IF Truthy(s3.country_code) /\ ~CountryKnown(s3.country_code)
        THEN [self |-> s3, out |-> Raised("ValueError", "country", "")]
        ELSE IF CountryMismatch(s4)
        THEN [self |-> s4, out |-> Raised("ValueError", "parent", "")]
        ELSE [self |-> s4, out |-> Returned(None)]

\* Variant: a validate() that works on a copy and stores it on success only.
ValidateTransactional(self) ==
    LET s3 == SwapLines(NormalizeBlank(NormalizeCodes(self)))
        s4 == DeriveCountry(s3)
    IN  IF Truthy(s3.subdivision_code) /\ ~SubdivisionKnown(s3.subdivision_code)
        THEN [self |-> self, out |-> Raised("ValueError", "subdivision", "")]
        ELSE IF Truthy(s3.country_code) /\ ~CountryKnown(s3.country_code)
        THEN [self |-> self, out |-> Raised("ValueError", "country", "")]
        ELSE IF CountryMismatch(s4)
        THEN [self |-> self, out |-> Raised("ValueError", "parent", "")]
        ELSE IF FirstMissing(s4, REQUIRED_FIELDS) # ""
        THEN [self |-> self,
              out |-> Raised("ValueError", "requires",
                             FirstMissing(s4, REQUIRED_FIELDS))]
        ELSE [self |-> s4, out |-> Returned(None)]

\* validate(): the record as the call leaves it, and what it raised.
Validate(self) ==
    LET s3 == SwapLines(NormalizeBlank(NormalizeCodes(self)))
        s4 == DeriveCountry(s3)
    IN  IF Truthy(s3.subdivision_code) /\ ~SubdivisionKnown(s3.subdivision_code)
        THEN [self |-> s3, out |-> Raised("ValueError", "subdivision", "")]
        ELSE IF Truthy(s3.country_code) /\ ~CountryKnown(s3.country_code)
        THEN [self |-> s3, out |-> Raised("ValueError", "country", "")]
        ELSE IF CountryMismatch(s4)
        THEN [self |-> s4, out |-> Raised("ValueError", "parent", "")]
        ELSE IF FirstMissing(s4, REQUIRED_FIELDS) # ""
        THEN [self |-> s4,
              out |-> Raised("ValueError", "requires",
                             FirstMissing(s4, REQUIRED_FIELDS))]
        ELSE [self |-> s4, out |-> Returned(None)]

\* Variant: valid catches KeyError instead of ValueError.
ValidCatchesKeyError(self) ==
    LET v == Validate(self)
    IN  IF v.out.exc = "KeyError" THEN [self |-> v.self, out |-> Returned(FALSE)]
        ELSE IF v.out.exc = "" THEN [self |-> v.self, out |-> Returned(TRUE)]
        ELSE v

\* The valid property: validate() with ValueError turned into False.
Valid(self) ==
    LET v == Validate(self)
    IN  IF v.out.exc = "ValueError" THEN [self |-> v.self, out |-> Returned(FALSE)]
        ELSE IF v.out.exc = "" THEN [self |-> v.self, out |-> Returned(TRUE)]
        ELSE v

\* Variant: empty looks at subdivision_code too.
EmptyWithSubdivision(self) ==
    IF \/ Truthy(self.line1) \/ Truthy(self.line2) \/ Truthy(self.zip_code)
       \/ Truthy(self.city) \/ Truthy(self.country_code)
       \/ Truthy(self.subdivision_code)
    THEN FALSE
    ELSE TRUE

\* The empty property.
Empty(self) ==
    IF \/ Truthy(self.line1) \/ Truthy(self.line2) \/ Truthy(self.zip_code)
       \/ Truthy(self.city) \/ Truthy(self.country_code)
    THEN FALSE
    ELSE TRUE

\* The country_name property.
country_name(self) ==
    IF Truthy(self.country_code)
    THEN IF CountryKnown(self.country_code)
         THEN Returned(CountryGet(self.country_code).name)
         ELSE Raised("KeyError", "", "")
    ELSE Returned(None)

\* Reading an attribute the instance does not have raises AttributeError.
HasAttr(self, name) == name \in DOMAIN self

\* render(separator)
render(self, separator) ==
    IF ~HasAttr(self, "state") THEN Raised("AttributeError", "", "state")
    ELSE
    LET lines12 == (IF Truthy(self.line1) THEN <<self.line1>> ELSE <<>>)
                   \o (IF Truthy(self.line2) THEN <<self.line2>> ELSE <<>>)
        cityState == (IF Truthy(self.city) THEN <<self.city>> ELSE <<>>)
                     \o (IF Truthy(self["state"]) THEN <<self["state"]>> ELSE <<>>)
        line3_elements ==
            (IF Truthy(self.zip_code) THEN <<self.zip_code>> ELSE <<>>)
            \o <<Join(<<",", " ">>, cityState)>>
        line3 == Join(<<" ", "-", " ">>, line3_elements)
        lines123 == lines12 \o (IF Truthy(line3) THEN <<line3>> ELSE <<>>)
        cn == country_name(self)
    IN  IF cn.exc # "" THEN cn
        ELSE Returned(Join(separator,
                 lines123 \o (IF Truthy(cn.ret) THEN <<cn.ret>> ELSE <<>>)))

\* A key of the item protocol: its type (a string or not) and its text.
StrKey(name) == [basestring |-> TRUE, id |-> name]

IntKey(name) == [basestring |-> FALSE, id |-> name]

\* isinstance(key, basestring)
IsString(key) == key.basestring

\* __getitem__(key)
GetItemResult(self, key) ==
    IF ~IsString(key) THEN Raised("TypeError", "", "")
    ELSE IF key.id \notin Components THEN Raised("KeyError", "", "")
    ELSE Returned(self[key.id])

\* Variant: __setitem__ sets the attribute without looking the key up.
SetItemUnchecked(self, key, val) ==
    IF ~IsString(key) THEN [self |-> self, out |-> Raised("TypeError", "", "")]
    ELSE [self |-> [k \in DOMAIN self \cup {key.id} |->
                      IF k = key.id THEN val ELSE self[k]],
          out |-> Returned(None)]

\* __setitem__(key, val): the record after the call, and what it raised.
SetItemResult(self, key, val) ==
    IF ~IsString(key) THEN [self |-> self, out |-> Raised("TypeError", "", "")]
    ELSE IF key.id \notin Components
    THEN [self |-> self, out |-> Raised("KeyError", "", "")]
    ELSE [self |-> [self EXCEPT ![key.id] = val], out |-> Returned(None)]

\* ------------------------------------------------------------------ inputs

Pad(s) == Spaces(MaxPad) \o s \o Spaces(MaxPad)

\* The inputs a component is given: None, whitespace-only strings, and
\* strings that are, or are not, codes of the directory once normalized.
InputsFor(c) ==
    CASE c = "line1" -> {None, <<>>, Spaces(MaxPad), <<"x">>}
      [] c = "line2" -> {None, <<>>, Spaces(MaxPad), <<"y">>}
      [] c = "zip_code" -> {None, Spaces(MaxPad), <<"7">>}
      [] c = "city" -> {None, Spaces(MaxPad), <<"p">>}
      [] c = "country_code" ->
            {None, Spaces(MaxPad), Pad(<<"c", "a">>), <<"F", "R">>, <<"Z", "Z">>}
      [] c = "subdivision_code" ->
            {None, Spaces(MaxPad), Pad(<<"c", "a", "-", "o", "n">>),
             <<"U", "S", "-", "C", "A">>, <<"X", "X", "-", "Y", "Y">>}
      [] OTHER -> {<<"1">>}

UnknownNames == {"zipcode"}

NonStringKeys == {IntKey("0")}

\* The keyword arguments of a constructor call: the components given a
\* value other than None, and the unknown names in extra.
Kwargs(v, extra) ==
    [k \in {c \in Components : v[c] # None} \cup extra |->
        IF k \in Components THEN v[k] ELSE <<"1">>]

Separators == {<<"\n">>, <<",", " ">>}

\* ----------------------------------------------------------------- actions

\* The last call ran validate().
ValidateRun == op \in {"construct", "validate", "valid"} /\ DOMAIN before # {}

\* The last call ran validate(), which raised nothing.
Accepted ==
    /\ ValidateRun
    /\ res.exc = ""
    /\ op = "valid" => res.ret = TRUE

Init ==
    /\ addr = NoAddress
    /\ before = NoSnapshot
    /\ op = ""
    /\ arg = NoArg
    /\ res = Returned(None)
    /\ was_valid = FALSE

\* Address(**kwargs)
Construct(kwargs) ==
    /\ op = ""
    /\ op' = "construct"
    /\ was_valid' = FALSE
    /\ arg' = kwargs
    /\ IF DOMAIN kwargs \ Components # {}
       THEN /\ res' = Raised("KeyError", "", "")
            /\ addr' = NoAddress
            /\ before' = NoSnapshot
       ELSE LET loaded == [c \in Components |->
                             IF c \in DOMAIN kwargs THEN kwargs[c] ELSE None]
                v == Validate(loaded)
            IN  /\ res' = v.out
                /\ addr' = IF v.out.exc = "" THEN v.self ELSE NoAddress
                /\ before' = loaded

\* address.validate()
ValidateCall ==
    /\ Live
    /\ op' = "validate"
    /\ was_valid' = Accepted
    /\ arg' = NoArg
    /\ before' = addr
    /\ addr' = Validate(addr).self
    /\ res' = Validate(addr).out

\* address.valid
ValidCall ==
    /\ Live
    /\ op' = "valid"
    /\ was_valid' = Accepted
    /\ arg' = NoArg
    /\ before' = addr
    /\ addr' = Valid(addr).self
    /\ res' = Valid(addr).out

\* address.empty
EmptyCall ==
    /\ Live
    /\ op' = "empty"
    /\ was_valid' = FALSE
    /\ arg' = NoArg
    /\ before' = NoSnapshot
    /\ res' = Returned(Empty(addr))
    /\ UNCHANGED addr

\* address[key]
GetItem(key) ==
    /\ Live
    /\ op' = "getitem"
    /\ was_valid' = FALSE
    /\ arg' = key
    /\ before' = NoSnapshot
    /\ res' = GetItemResult(addr, key)
    /\ UNCHANGED addr

\* address[key] = val
SetItem(key, val) ==
    /\ Live
    /\ op' = "setitem"
    /\ was_valid' = FALSE
    /\ arg' = key
    /\ before' = NoSnapshot
    /\ addr' = SetItemResult(addr, key, val).self
    /\ res' = SetItemResult(addr, key, val).out

\* address.render(separator)
RenderCall(separator) ==
    /\ Live
    /\ op' = "render"
    /\ was_valid' = FALSE
    /\ arg' = separator
    /\ before' = NoSnapshot
    /\ res' = render(addr, separator)
    /\ UNCHANGED addr

Next ==
    \/ /\ op = ""
       /\ \E l1 \in InputsFor("line1"), l2 \in InputsFor("line2"),
             z \in InputsFor("zip_code"), ci \in InputsFor("city"),
             cc \in InputsFor("country_code"),
             sc \in InputsFor("subdivision_code"),
             extra \in SUBSET UnknownNames :
             Construct(Kwargs([line1 |-> l1, line2 |-> l2, zip_code |-> z,
                               city |-> ci, country_code |-> cc,
                               subdivision_code |-> sc], extra))
    \/ ValidateCall
    \/ ValidCall
    \/ EmptyCall
    \/ \E name \in Components \cup UnknownNames : GetItem(StrKey(name))
    \/ \E key \in NonStringKeys : GetItem(key)
    \/ \E name \in Components \cup UnknownNames : \E val \in InputsFor(name) :
          SetItem(StrKey(name), val)
    \/ \E key \in NonStringKeys : \E val \in InputsFor(key.id) :
          SetItem(key, val)
    \/ \E separator \in Separators : RenderCall(separator)

Spec == Init /\ [][Next]_vars

\* ------------------------------------------------------------ properties

\* A string that is empty or holds whitespace only.
IsBlank(v) == v # None /\ Strip(v) = <<>>

\* A code as given to validate(), trimmed and upper-cased; None when nothing
\* is left of it.
CodeOf(v) ==
    IF Truthy(v) /\ Truthy(Upper(Strip(v))) THEN Upper(Strip(v)) ELSE None

GivenCountry == CodeOf(before.country_code)

GivenSubdivision == CodeOf(before.subdivision_code)

SubdivisionBad == GivenSubdivision # None /\ ~SubdivisionKnown(GivenSubdivision)

CountryBad == GivenCountry # None /\ ~CountryKnown(GivenCountry)

ParentOf(code) == (CHOOSE s \in subdivisions : s.code = code).country_code

Mismatch ==
    /\ GivenCountry # None /\ CountryKnown(GivenCountry)
    /\ GivenSubdivision # None /\ SubdivisionKnown(GivenSubdivision)
    /\ ParentOf(GivenSubdivision) # GivenCountry

\* The country code once every normalization has run.
FinalCountry ==
    IF GivenCountry # None THEN GivenCountry
    ELSE IF GivenSubdivision # None /\ SubdivisionKnown(GivenSubdivision)
    THEN ParentOf(GivenSubdivision)
    ELSE None

SomeRequiredAbsent ==
    \/ ~Truthy(before.line1) /\ ~Truthy(before.line2)
    \/ ~Truthy(before.zip_code)
    \/ ~Truthy(before.city)
    \/ FinalCountry = None

\* The failure validate() is to report on the components it was given.
ExpectedOutcome ==
    IF SubdivisionBad THEN "subdivision"
    ELSE IF CountryBad THEN "country"
    ELSE IF Mismatch THEN "parent"
    ELSE IF SomeRequiredAbsent THEN "requires"
    ELSE ""

\* The last call was validate() or valid, and validate() raised.
Rejected ==
    /\ op \in {"validate", "valid"}
    /\ IF op = "valid" THEN res.ret = FALSE ELSE res.exc = "ValueError"

\* C1: after a successful construction or validate(), no component holds an
\* empty or whitespace-only string.
C1_NoBlankComponent ==
    Accepted => \A c \in Components : ~IsBlank(addr[c])

\* C2: on a record with line1, zip_code, city and a country code set and
\* line2 and subdivision_code absent, render() returns line1, then
\* "zip_code - city", then the country's name, joined by the separator.
C2_RenderBlock ==
    ( /\ op = "render"
      /\ Truthy(addr.line1) /\ Truthy(addr.zip_code) /\ Truthy(addr.city)
      /\ Truthy(addr.country_code) /\ CountryKnown(addr.country_code)
      /\ addr.line2 = None /\ addr.subdivision_code = None )
    => /\ res.exc = ""
       /\ res.ret = Join(arg, << addr.line1,
                                  addr.zip_code \o <<" ", "-", " ">> \o addr.city,
                                  CountryGet(addr.country_code).name >>)

\* C3: validate() called on a record validate() has just accepted succeeds
\* and leaves the six components as they were.
C3_Idempotent ==
    (op = "validate" /\ was_valid) => (res.exc = "" /\ addr = before)

C3_Witness ==
    /\ op = "validate" /\ was_valid /\ res.exc = ""
    /\ Truthy(addr.line2) /\ Truthy(addr.subdivision_code)

C5_SubdivisionParent ==
    Accepted =>
        /\ Truthy(addr.subdivision_code) =>
              /\ SubdivisionKnown(addr.subdivision_code)
              /\ Truthy(addr.country_code)
              /\ addr.country_code = ParentOf(addr.subdivision_code)
        /\ (GivenSubdivision # None /\ GivenCountry = None) =>
              /\ addr.subdivision_code = GivenSubdivision
              /\ addr.country_code = ParentOf(GivenSubdivision)

C5_Witness ==
    /\ Accepted /\ GivenCountry = None
    /\ addr.subdivision_code = <<"C", "A", "-", "O", "N">>
    /\ addr.country_code = <<"C", "A">>

\* C6: when the trimmed, upper-cased country and subdivision codes are both
\* in the directory and the subdivision's parent is another country,
\* construction and validate() raise the country-mismatch error, whatever the
\* other components are.
C6_MismatchFirst ==
    (ValidateRun /\ op # "valid" /\ Mismatch)
    => (res.exc = "ValueError" /\ res.why = "parent")

C6_Witness ==
    /\ op = "construct" /\ Mismatch /\ res.why = "parent"
    /\ before.line1 = None /\ before.line2 = None /\ before.city = None

\* C7: a constructor call with a name that is no component raises KeyError
\* before validate() runs and yields no instance; getting or setting an
\* item by a name that is no component raises KeyError and leaves the
\* components as they were.
C7_UnknownNames ==
    [][ /\ (op' = "construct" /\ DOMAIN arg' \ Components # {})
           => /\ res'.exc = "KeyError"
              /\ DOMAIN addr' = {}
              /\ DOMAIN before' = {}
        /\ ( /\ op' \in {"getitem", "setitem"}
             /\ IsString(arg') /\ arg'.id \notin Components )
           => (res'.exc = "KeyError" /\ addr' = addr) ]_vars

C7_Witness ==
    /\ op = "setitem" /\ arg.id = "zipcode" /\ res.exc = "KeyError"
    /\ DOMAIN addr = Components

\* C8: valid never raises; it returns True when validate() accepts the
\* components it is given and False for each kind of failure.
C8_ValidNeverRaises ==
    /\ op = "valid" => (res.exc = "" /\ res.ret = (ExpectedOutcome = ""))
    /\ (ValidateRun /\ op # "valid") =>
          /\ res.exc \in {"", "ValueError"}
          /\ res.why = ExpectedOutcome

C8_Witness ==
    op = "valid" /\ res.exc = "" /\ res.ret = FALSE /\ Mismatch

AfterFailure ==
    LET Kept(v) == IF Truthy(v) THEN v ELSE None
        swap == ~Truthy(before.line1) /\ Truthy(before.line2)
    IN  [line1 |-> IF swap THEN before.line2 ELSE Kept(before.line1),
         line2 |-> IF swap THEN None ELSE Kept(before.line2),
         zip_code |-> Kept(before.zip_code),
         city |-> Kept(before.city),
         subdivision_code |-> GivenSubdivision,
         country_code |-> IF ExpectedOutcome \in {"subdivision", "country"}
                          THEN GivenCountry
                          ELSE FinalCountry]

\* C10: a validate() (or valid) that fails leaves on the record the effects
\* of the steps before the failing one (codes trimmed and upper-cased, empty
\* values turned to None, the lines swapped, the country code derived when
\* the failure is a missing field) and of no step at or after it.
C10_NonTransactional ==
    Rejected => addr = AfterFailure

C10_Witness ==
    /\ op = "validate" /\ res.why = "requires"
    /\ before.line1 = None /\ addr.line1 = <<"y">> /\ addr.line2 = None
    /\ before.country_code = None /\ addr.country_code = <<"C", "A">>
    /\ before.subdivision_code # addr.subdivision_code

====
